---- MODULE Spec2Model ----
(***************************************************************************)
(* Model of connector.cpp: a console message communicator.  One process    *)
(* runs main(), which starts the threads recv_loop and send_loop on one    *)
(* connected socket and supervises them through the atomic flag `running`. *)
(*                                                                         *)
(* Every program variable is a function over Proc, so that the same        *)
(* actions describe one process talking to an arbitrary peer (Spec) and    *)
(* two connector processes talking to each other (SpecAB).                 *)
(*                                                                         *)
(* Text is a sequence of one-character strings.  The literals "[remote] "  *)
(* and "[you] " are each written by one operator<< call and are kept as    *)
(* one element of the console.                                             *)
(***************************************************************************)
EXTENDS Naturals, Sequences, FiniteSets

\* ------------------------------------------------------------------ bounds
\* inputs the environment gives one process: console lines it supplies to
\* getline plus bytes an arbitrary peer puts on the wire
MaxInputs == 2
\* console lines of the process that talks, when two processes are connected
MaxLinesAB == 1
\* characters of one console line
MaxLineLen == 1
\* candidate addresses getaddrinfo returns to the dialer
MaxCands == 2

\* ------------------------------------------------------- program constants
\* const size_t BUF = 1024;
BUF == 1024

Proc == {"A", "B"}
Other(p) == IF p = "A" THEN "B" ELSE "A"

NL == "\n"
NUL == "NUL"
Chars == {"x"}
PeerBytes == {"x", NL, NUL}

SeqsUpTo(S, k) == UNION {[1..m -> S] : m \in 0..k}
Lines == SeqsUpTo(Chars, MaxLineLen)

\* argv[3] of each process
NameOf(p) == IF p = "A" THEN <<"a">> ELSE <<"b">>

Min(a, b) == IF a < b THEN a ELSE b
Upd(f, p, v) == [f EXCEPT ![p] = v]

\* the characters s writes to the console for owner w
Piece(w, s) == [i \in 1..Len(s) |-> <<w, s[i]>>]

\* string out = username + ": " + line + "\n";
Message(name, ln) == name \o <<":", " ">> \o ln \o <<NL>>

\* operator<<(const char*): the bytes up to the first zero byte
RECURSIVE CStr(_)
CStr(b) ==
  IF b = <<>> \/ Head(b) = NUL THEN <<>> ELSE <<Head(b)>> \o CStr(Tail(b))

VARIABLES
  running,    \* static atomic<bool> running
  mainPc,     \* position of main()
  recvPc,     \* position of the thread r (recv_loop)
  sendPc,     \* position of the thread s (send_loop)
  conn_fd,    \* the descriptor of the connected socket: "open" or "closed"
  shut,       \* the connected socket has been shut down (SHUT_RDWR)
  buf,        \* recv_loop: the n bytes of the last recv
  line,       \* send_loop: the line getline read
  out,        \* send_loop: the message being sent
  sent,       \* send_loop: bytes of out already sent
  to_send,    \* send_loop: bytes of out still to send
  username,   \* main: display name
  argv,       \* main: the arguments after the program name
  srv,        \* the listening socket: "none", "open" or "closed"
  naccept,    \* connections accept() has returned so far
  cands,      \* create_client_socket: what getaddrinfo returned, one
              \* entry per candidate address saying how it will answer
  rp,         \* create_client_socket: index of the current candidate
  sfd,        \* create_client_socket: the candidate whose socket sfd
              \* holds, 0 for -1
  socks,      \* create_client_socket: candidates whose socket is open
  cout,       \* standard output: sequence of <<thread, character>>
  cerr,       \* standard error: sequence of notices
  inq,        \* bytes received by the socket and not yet read
  fin,        \* the peer has closed its side of the connection
  wire,       \* every byte send() has accepted, in order
  typed,      \* every line getline has returned, in order
  late,       \* for each of them, whether running was false by then
  stdin,      \* lines the console can still supply before it falls silent
  nshutdown,  \* shutdown(conn_fd) calls so far
  nclose,     \* close(conn_fd) calls so far
  npeer,      \* bytes an arbitrary peer has sent so far
  trig,       \* the places that have stored false into running
  status      \* exit status of the process, or "none"

\* what main sets while it establishes the connection
mainLocals == <<username, argv, srv, naccept, cands, rp, sfd, socks>>

vars == <<running, mainPc, recvPc, sendPc, conn_fd, shut, buf, line, out, sent,
          to_send, mainLocals, cout, cerr, inq, fin, wire, typed, late,
          stdin, nshutdown, nclose, npeer, trig, status>>

\* the variables only send_loop writes
sendLocals == <<line, out, sent, to_send>>
\* what only the system calls of main write
mainCounts == <<shut, nshutdown, nclose>>
\* the environment's counters
envCounts == <<npeer, stdin>>

\* the status lines main prints while it establishes the connection
ListeningLine == Piece("main", <<"Listening on port ", "p", " ...", NL>>)
ClientConnectedLine == Piece("main", <<"Client connected", NL>>)
ConnectedToLine == Piece("main", <<"Connected to ", "h", ":", "p", NL>>)

\* the command lines of the two processes: A listens, B dials
ArgvOf(p) ==
  IF p = "A" THEN <<"--listen", "p", "a">> ELSE <<"h", "p", "b">>

\* the state of a process whose connection is established (line 191): A has
\* accepted one connection and closed its listening socket, B has connected
\* to the first candidate address
Established(ps, lines) ==
  /\ running = [p \in Proc |-> TRUE]
  /\ mainPc = [p \in Proc |-> IF p \in ps THEN "spawn_r" ELSE "off"]
  /\ recvPc = [p \in Proc |-> "idle"]
  /\ sendPc = [p \in Proc |-> "idle"]
  /\ conn_fd = [p \in Proc |-> "open"]
  /\ shut = [p \in Proc |-> FALSE]
  /\ buf = [p \in Proc |-> <<>>]
  /\ line = [p \in Proc |-> <<>>]
  /\ out = [p \in Proc |-> <<>>]
  /\ sent = [p \in Proc |-> 0]
  /\ to_send = [p \in Proc |-> 0]
  /\ username = [p \in Proc |-> NameOf(p)]
  /\ argv = [p \in Proc |-> ArgvOf(p)]
  /\ srv = [p \in Proc |-> IF p = "A" THEN "closed" ELSE "none"]
  /\ naccept = [p \in Proc |-> IF p = "A" THEN 1 ELSE 0]
  /\ cands = [p \in Proc |-> IF p = "A" THEN <<>> ELSE <<"ok">>]
  /\ rp = [p \in Proc |-> IF p = "A" THEN 0 ELSE 1]
  /\ sfd = [p \in Proc |-> IF p = "A" THEN 0 ELSE 1]
  /\ socks = [p \in Proc |-> {}]
  /\ cout = [p \in Proc |-> IF p = "A"
                            THEN ListeningLine \o ClientConnectedLine
                            ELSE ConnectedToLine]
  /\ cerr = [p \in Proc |-> <<>>]
  /\ inq = [p \in Proc |-> <<>>]
  /\ fin = [p \in Proc |-> FALSE]
  /\ wire = [p \in Proc |-> <<>>]
  /\ typed = [p \in Proc |-> <<>>]
  /\ late = [p \in Proc |-> <<>>]
  /\ stdin = lines
  /\ nshutdown = [p \in Proc |-> 0]
  /\ nclose = [p \in Proc |-> 0]
  /\ npeer = [p \in Proc |-> 0]
  /\ trig = [p \in Proc |-> {}]
  /\ status = [p \in Proc |-> "none"]

\* one connector process, its peer is the environment
Init == Established({"A"}, [p \in Proc |-> IF p = "A" THEN MaxInputs ELSE 0])

\* two connector processes connected to each other; only A's console has
\* lines to give
InitAB == Established(Proc, [p \in Proc |-> IF p = "A" THEN MaxLinesAB ELSE 0])

\* ---------------------------------------------------------- establishment
\* the command lines a process is started with (after the program name)
Argvs ==
  {<<>>, <<"--listen">>, <<"--listen", "p">>, <<"--listen", "p", "a">>,
   <<"h">>, <<"h", "p">>, <<"h", "p", "a">>}

\* how a candidate address answers: socket() and connect() succeed,
\* connect() fails, or socket() fails
Outcomes == {"ok", "refused", "nosocket"}
Candidates == UNION {[1..m -> Outcomes] : m \in 1..MaxCands}

\* what establishment never touches
sessionVars == <<running, recvPc, sendPc, shut, buf, sendLocals, inq, fin,
                 wire, typed, late, envCounts, nshutdown, nclose, trig>>

\* the start of main (line 145) of process A, with any of the command
\* lines; its console is at end of input
InitEst ==
  /\ running = [p \in Proc |-> TRUE]
  /\ mainPc = [p \in Proc |-> IF p = "A" THEN "start" ELSE "off"]
  /\ recvPc = [p \in Proc |-> "idle"]
  /\ sendPc = [p \in Proc |-> "idle"]
  /\ conn_fd = [p \in Proc |-> "none"]
  /\ shut = [p \in Proc |-> FALSE]
  /\ buf = [p \in Proc |-> <<>>]
  /\ line = [p \in Proc |-> <<>>]
  /\ out = [p \in Proc |-> <<>>]
  /\ sent = [p \in Proc |-> 0]
  /\ to_send = [p \in Proc |-> 0]
  /\ username = [p \in Proc |-> <<>>]
  /\ \E a \in Argvs : argv = [p \in Proc |-> IF p = "A" THEN a ELSE <<>>]
  /\ srv = [p \in Proc |-> "none"]
  /\ naccept = [p \in Proc |-> 0]
  /\ cands = [p \in Proc |-> <<>>]
  /\ rp = [p \in Proc |-> 0]
  /\ sfd = [p \in Proc |-> 0]
  /\ socks = [p \in Proc |-> {}]
  /\ cout = [p \in Proc |-> <<>>]
  /\ cerr = [p \in Proc |-> <<>>]
  /\ inq = [p \in Proc |-> <<>>]
  /\ fin = [p \in Proc |-> FALSE]
  /\ wire = [p \in Proc |-> <<>>]
  /\ typed = [p \in Proc |-> <<>>]
  /\ late = [p \in Proc |-> <<>>]
  /\ stdin = [p \in Proc |-> 0]
  /\ nshutdown = [p \in Proc |-> 0]
  /\ nclose = [p \in Proc |-> 0]
  /\ npeer = [p \in Proc |-> 0]
  /\ trig = [p \in Proc |-> {}]
  /\ status = [p \in Proc |-> "none"]

\* a diagnostic on standard error, then return 1; from main
Return1(p, notice) ==
  /\ cerr' = Upd(cerr, p, Append(cerr[p], notice))
  /\ status' = Upd(status, p, "1")
  /\ mainPc' = Upd(mainPc, p, "failed")

\* lines 145-162 and 178-185: the argument checks, signal(SIGINT, ...),
\* and the display name
MainArgs(p) ==
  /\ mainPc[p] = "start"
  /\ LET argc == Len(argv[p]) + 1
         listener == argc >= 2 /\ argv[p][1] = "--listen"
     IN IF argc < 3
        THEN /\ Return1(p, IF argc < 2 THEN "Usage:"
                           ELSE IF listener
                                THEN "Please specify port to listen on"
                                ELSE "Please specify host and port")
             /\ UNCHANGED username
        ELSE /\ username' = Upd(username, p,
                                IF argc >= 4 THEN <<argv[p][3]>>
                                ELSE IF listener THEN <<"server">>
                                                 ELSE <<"host">>)
             /\ mainPc' = Upd(mainPc, p, IF listener THEN "srv_getaddrinfo"
                                                    ELSE "cli_getaddrinfo")
             /\ UNCHANGED <<cerr, status>>
  /\ UNCHANGED <<sessionVars, conn_fd, argv, srv, naccept, cands, rp, sfd,
                 socks, cout>>

\* create_server_socket: getaddrinfo(NULL, port, ...)
ServerGetaddrinfo(p) ==
  /\ mainPc[p] = "srv_getaddrinfo"
  /\ \E ok \in BOOLEAN :
       IF ok
       THEN /\ mainPc' = Upd(mainPc, p, "srv_socket")
            /\ UNCHANGED <<cerr, status>>
       ELSE Return1(p, "getaddrinfo: error")
  /\ UNCHANGED <<sessionVars, conn_fd, mainLocals, cout>>

\* create_server_socket: socket(...); setsockopt(...)
ServerSocket(p) ==
  /\ mainPc[p] = "srv_socket"
  /\ \E ok \in BOOLEAN :
       IF ok
       THEN /\ srv' = Upd(srv, p, "open")
            /\ mainPc' = Upd(mainPc, p, "srv_bind")
            /\ UNCHANGED <<cerr, status>>
       ELSE /\ Return1(p, "socket: error")
            /\ UNCHANGED srv
  /\ UNCHANGED <<sessionVars, conn_fd, username, argv, naccept, cands, rp,
                 sfd, socks, cout>>

\* create_server_socket: bind(...), on failure perror, close(sfd)
ServerBind(p) ==
  /\ mainPc[p] = "srv_bind"
  /\ \E ok \in BOOLEAN :
       IF ok
       THEN /\ mainPc' = Upd(mainPc, p, "srv_listen")
            /\ UNCHANGED <<srv, cerr, status>>
       ELSE /\ srv' = Upd(srv, p, "closed")
            /\ Return1(p, "bind: error")
  /\ UNCHANGED <<sessionVars, conn_fd, username, argv, naccept, cands, rp,
                 sfd, socks, cout>>

\* create_server_socket: listen(sfd, 1), on failure perror, close(sfd);
\* on success main prints the status line of line 166
ServerListen(p) ==
  /\ mainPc[p] = "srv_listen"
  /\ \E ok \in BOOLEAN :
       IF ok
       THEN /\ cout' = Upd(cout, p, cout[p] \o ListeningLine)
            /\ mainPc' = Upd(mainPc, p, "accept")
            /\ UNCHANGED <<srv, cerr, status>>
       ELSE /\ srv' = Upd(srv, p, "closed")
            /\ Return1(p, "listen: error")
            /\ UNCHANGED cout
  /\ UNCHANGED <<sessionVars, conn_fd, username, argv, naccept, cands, rp,
                 sfd, socks>>

\* conn_fd = accept(srv, ...); on failure perror, close(srv), return 1
MainAccept(p) ==
  /\ mainPc[p] = "accept"
  /\ \E ok \in BOOLEAN :
       IF ok
       THEN /\ conn_fd' = Upd(conn_fd, p, "open")
            /\ naccept' = Upd(naccept, p, naccept[p] + 1)
            /\ mainPc' = Upd(mainPc, p, "close_srv")
            /\ UNCHANGED <<srv, cerr, status>>
       ELSE /\ srv' = Upd(srv, p, "closed")
            /\ Return1(p, "accept: error")
            /\ UNCHANGED <<conn_fd, naccept>>
  /\ UNCHANGED <<sessionVars, username, argv, cands, rp, sfd, socks, cout>>

\* MainCloseSrv with close(srv) left out: the listening socket stays open.
MainCloseSrvOmitted(p) ==
  /\ mainPc[p] = "close_srv"
  /\ cout' = Upd(cout, p, cout[p] \o ClientConnectedLine)
  /\ mainPc' = Upd(mainPc, p, "spawn_r")
  /\ UNCHANGED <<sessionVars, conn_fd, mainLocals, cerr, status>>

\* close(srv); cout << "Client connected" << endl;
MainCloseSrv(p) ==
  /\ mainPc[p] = "close_srv"
  /\ srv' = Upd(srv, p, "closed")
  /\ cout' = Upd(cout, p, cout[p] \o ClientConnectedLine)
  /\ mainPc' = Upd(mainPc, p, "spawn_r")
  /\ UNCHANGED <<sessionVars, conn_fd, username, argv, naccept, cands, rp,
                 sfd, socks, cerr, status>>

\* create_client_socket: getaddrinfo(host, port, ...) returns the list of
\* candidates; int sfd = -1; rp = res
ClientGetaddrinfo(p) ==
  /\ mainPc[p] = "cli_getaddrinfo"
  /\ \E ok \in BOOLEAN :
       IF ok
       THEN /\ \E c \in Candidates : cands' = Upd(cands, p, c)
            /\ rp' = Upd(rp, p, 1)
            /\ sfd' = Upd(sfd, p, 0)
            /\ mainPc' = Upd(mainPc, p, "cli_socket")
            /\ UNCHANGED <<cerr, status>>
       ELSE /\ Return1(p, "getaddrinfo: error")
            /\ UNCHANGED <<cands, rp, sfd>>
  /\ UNCHANGED <<sessionVars, conn_fd, username, argv, srv, naccept, socks,
                 cout>>

\* where the for loop of line 76 goes after rp = rp->ai_next
AfterCandidate(p) ==
  IF rp[p] + 1 > Len(cands[p]) THEN "cli_return" ELSE "cli_socket"

\* sfd = socket(...); if (sfd == -1) continue;
ClientSocket(p) ==
  /\ mainPc[p] = "cli_socket"
  /\ IF cands[p][rp[p]] = "nosocket"
     THEN /\ sfd' = Upd(sfd, p, 0)
          /\ rp' = Upd(rp, p, rp[p] + 1)
          /\ mainPc' = Upd(mainPc, p, AfterCandidate(p))
          /\ UNCHANGED socks
     ELSE /\ sfd' = Upd(sfd, p, rp[p])
          /\ socks' = Upd(socks, p, socks[p] \cup {rp[p]})
          /\ mainPc' = Upd(mainPc, p, "cli_connect")
          /\ UNCHANGED rp
  /\ UNCHANGED <<sessionVars, conn_fd, username, argv, srv, naccept, cands,
                 cout, cerr, status>>

\* ClientConnect with close(sfd) left out when connect fails.
ClientConnectLeaks(p) ==
  /\ mainPc[p] = "cli_connect"
  /\ IF cands[p][rp[p]] = "ok"
     THEN /\ mainPc' = Upd(mainPc, p, "cli_return")
          /\ UNCHANGED <<sfd, rp>>
     ELSE /\ sfd' = Upd(sfd, p, 0)
          /\ rp' = Upd(rp, p, rp[p] + 1)
          /\ mainPc' = Upd(mainPc, p, AfterCandidate(p))
  /\ UNCHANGED <<sessionVars, conn_fd, username, argv, srv, naccept, cands,
                 socks, cout, cerr, status>>

\* if (connect(sfd, ...) == 0) break; close(sfd); sfd = -1;
ClientConnect(p) ==
  /\ mainPc[p] = "cli_connect"
  /\ IF cands[p][rp[p]] = "ok"
     THEN /\ mainPc' = Upd(mainPc, p, "cli_return")
          /\ UNCHANGED <<sfd, rp, socks>>
     ELSE /\ socks' = Upd(socks, p, socks[p] \ {sfd[p]})
          /\ sfd' = Upd(sfd, p, 0)
          /\ rp' = Upd(rp, p, rp[p] + 1)
          /\ mainPc' = Upd(mainPc, p, AfterCandidate(p))
  /\ UNCHANGED <<sessionVars, conn_fd, username, argv, srv, naccept, cands,
                 cout, cerr, status>>

\* freeaddrinfo(res); if (sfd == -1) perror("connect"); return sfd;  and in
\* main: if (conn_fd < 0) return 1; cout << "Connected to " ...
\* The socket of sfd is conn_fd from here on.
ClientReturn(p) ==
  /\ mainPc[p] = "cli_return"
  /\ IF sfd[p] = 0
     THEN /\ Return1(p, "connect: error")
          /\ UNCHANGED <<conn_fd, socks, cout>>
     ELSE /\ conn_fd' = Upd(conn_fd, p, "open")
          /\ socks' = Upd(socks, p, socks[p] \ {sfd[p]})
          /\ cout' = Upd(cout, p, cout[p] \o ConnectedToLine)
          /\ mainPc' = Upd(mainPc, p, "spawn_r")
          /\ UNCHANGED <<cerr, status>>
  /\ UNCHANGED <<sessionVars, username, argv, srv, naccept, cands, rp, sfd>>

\* lines 145-190
Establish(p) ==
  \/ MainArgs(p)
  \/ ServerGetaddrinfo(p)
  \/ ServerSocket(p)
  \/ ServerBind(p)
  \/ ServerListen(p)
  \/ MainAccept(p)
  \/ MainCloseSrv(p)
  \/ ClientGetaddrinfo(p)
  \/ ClientSocket(p)
  \/ ClientConnect(p)
  \/ ClientReturn(p)

\* ------------------------------------------------------------------- main
\* thread r(recv_loop, conn_fd);
MainSpawnR(p) ==
  /\ mainPc[p] = "spawn_r"
  /\ recvPc' = Upd(recvPc, p, "check")
  /\ mainPc' = Upd(mainPc, p, "spawn_s")
  /\ UNCHANGED <<running, sendPc, conn_fd, buf, sendLocals, mainLocals, cout,
                 cerr, inq, fin, wire, typed, late, envCounts, mainCounts, trig,
                 status>>

\* thread s(send_loop, conn_fd, username);
MainSpawnS(p) ==
  /\ mainPc[p] = "spawn_s"
  /\ sendPc' = Upd(sendPc, p, "check")
  /\ mainPc' = Upd(mainPc, p, "poll")
  /\ UNCHANGED <<running, recvPc, conn_fd, buf, sendLocals, mainLocals, cout,
                 cerr, inq, fin, wire, typed, late, envCounts, mainCounts, trig,
                 status>>

\* while (running.load()) this_thread::sleep_for(chrono::milliseconds(100));
MainPoll(p) ==
  /\ mainPc[p] = "poll"
  /\ mainPc' = IF running[p] THEN mainPc ELSE Upd(mainPc, p, "shutdown")
  /\ UNCHANGED <<running, recvPc, sendPc, conn_fd, buf, sendLocals, mainLocals,
                 cout, cerr, inq, fin, wire, typed, late, envCounts, mainCounts,
                 trig, status>>

\* MainShutdown with the half-close left out: main goes straight to close.
MainShutdownOmitted(p) ==
  /\ mainPc[p] = "shutdown"
  /\ mainPc' = Upd(mainPc, p, "close")
  /\ UNCHANGED <<running, recvPc, sendPc, conn_fd, buf, sendLocals, mainLocals,
                 cout, cerr, inq, fin, wire, typed, late, envCounts, mainCounts,
                 trig, status>>

\* shutdown(conn_fd, SHUT_RDWR);
MainShutdown(p) ==
  /\ mainPc[p] = "shutdown"
  /\ nshutdown' = Upd(nshutdown, p, nshutdown[p] + 1)
  /\ shut' = Upd(shut, p, TRUE)
  /\ fin' = Upd(fin, Other(p), TRUE)
  /\ mainPc' = Upd(mainPc, p, "close")
  /\ UNCHANGED <<running, recvPc, sendPc, conn_fd, buf, sendLocals, mainLocals,
                 cout, cerr, inq, wire, typed, late, envCounts, nclose, trig, status>>

\* close(conn_fd);
MainClose(p) ==
  /\ mainPc[p] = "close"
  /\ nclose' = Upd(nclose, p, nclose[p] + 1)
  /\ conn_fd' = Upd(conn_fd, p, "closed")
  /\ fin' = Upd(fin, Other(p), TRUE)
  /\ mainPc' = Upd(mainPc, p, "join_s")
  /\ UNCHANGED <<running, recvPc, sendPc, shut, buf, sendLocals, mainLocals,
                 cout, cerr, inq, wire, typed, late, envCounts, nshutdown, trig,
                 status>>

\* if (s.joinable()) s.join();
MainJoinS(p) ==
  /\ mainPc[p] = "join_s"
  /\ sendPc[p] = "done"
  /\ mainPc' = Upd(mainPc, p, "join_r")
  /\ UNCHANGED <<running, recvPc, sendPc, conn_fd, buf, sendLocals, mainLocals,
                 cout, cerr, inq, fin, wire, typed, late, envCounts, mainCounts,
                 trig, status>>

\* if (r.joinable()) r.join();
MainJoinR(p) ==
  /\ mainPc[p] = "join_r"
  /\ recvPc[p] = "done"
  /\ mainPc' = Upd(mainPc, p, "exiting")
  /\ UNCHANGED <<running, recvPc, sendPc, conn_fd, buf, sendLocals, mainLocals,
                 cout, cerr, inq, fin, wire, typed, late, envCounts, mainCounts,
                 trig, status>>

\* cout << "Exiting." << endl; return 0;
MainExit(p) ==
  /\ mainPc[p] = "exiting"
  /\ cout' = Upd(cout, p, cout[p] \o Piece("main", <<"Exiting.", NL>>))
  /\ status' = Upd(status, p, "0")
  /\ mainPc' = Upd(mainPc, p, "done")
  /\ UNCHANGED <<running, recvPc, sendPc, conn_fd, buf, sendLocals, mainLocals,
                 cerr, inq, fin, wire, typed, late, envCounts, mainCounts, trig>>

Main(p) ==
  \/ MainSpawnR(p)
  \/ MainSpawnS(p)
  \/ MainPoll(p)
  \/ MainShutdown(p)
  \/ MainClose(p)
  \/ MainJoinS(p)
  \/ MainJoinR(p)
  \/ MainExit(p)

\* The process dies of SIGPIPE: every thread stops where it is and the
\* kernel releases the connection.
Kill(p) ==
  /\ mainPc' = Upd(mainPc, p, "killed")
  /\ recvPc' = Upd(recvPc, p, "killed")
  /\ sendPc' = Upd(sendPc, p, "killed")
  /\ status' = Upd(status, p, "SIGPIPE")
  /\ fin' = Upd(fin, Other(p), TRUE)

\* -------------------------------------------------------------- recv_loop
\* while (running.load())
RecvCheck(p) ==
  /\ recvPc[p] = "check"
  /\ recvPc' = Upd(recvPc, p, IF running[p] THEN "call_recv" ELSE "done")
  /\ UNCHANGED <<running, mainPc, sendPc, conn_fd, buf, sendLocals, mainLocals,
                 cout, cerr, inq, fin, wire, typed, late, envCounts, mainCounts,
                 trig, status>>

\* ssize_t n = recv(sockfd, buf.data(), BUF - 1, 0);  the call is entered:
\* on a descriptor main has closed it returns -1 with EBADF at once,
\* otherwise the thread is in the call and holds the socket until it returns.
RecvCall(p) ==
  /\ recvPc[p] = "call_recv"
  /\ recvPc' = Upd(recvPc, p, IF conn_fd[p] = "closed" THEN "recv_error" ELSE "recv")
  /\ UNCHANGED <<running, mainPc, sendPc, conn_fd, buf, sendLocals, mainLocals,
                 cout, cerr, inq, fin, wire, typed, late, envCounts, mainCounts,
                 trig, status>>

\* recv returns n > 0: any non-empty prefix of the pending bytes, at most
\* BUF - 1 of them.
RecvData(p) ==
  /\ recvPc[p] = "recv"
  /\ inq[p] # <<>>
  /\ \E n \in 1..Min(Len(inq[p]), BUF - 1) :
       /\ buf' = Upd(buf, p, SubSeq(inq[p], 1, n))
       /\ inq' = Upd(inq, p, SubSeq(inq[p], n + 1, Len(inq[p])))
  /\ recvPc' = Upd(recvPc, p, "print_prefix")
  /\ UNCHANGED <<running, mainPc, sendPc, conn_fd, sendLocals, mainLocals, cout,
                 cerr, fin, wire, typed, late, envCounts, mainCounts, trig, status>>

\* buf[n] = '\0'; cout << "[remote] "
RecvPrintPrefix(p) ==
  /\ recvPc[p] = "print_prefix"
  /\ cout' = Upd(cout, p, cout[p] \o Piece("recv", <<"[remote] ">>))
  /\ recvPc' = Upd(recvPc, p, "print_data")
  /\ UNCHANGED <<running, mainPc, sendPc, conn_fd, buf, sendLocals, mainLocals,
                 cerr, inq, fin, wire, typed, late, envCounts, mainCounts, trig,
                 status>>

\* ... << buf.data();
RecvPrintData(p) ==
  /\ recvPc[p] = "print_data"
  /\ cout' = Upd(cout, p, cout[p] \o Piece("recv", CStr(buf[p])))
  /\ recvPc' = Upd(recvPc, p, "print_nl")
  /\ UNCHANGED <<running, mainPc, sendPc, conn_fd, buf, sendLocals, mainLocals,
                 cerr, inq, fin, wire, typed, late, envCounts, mainCounts, trig,
                 status>>

\* if (buf[n-1] != '\n') cout << '\n'; cout.flush();
RecvPrintNl(p) ==
  /\ recvPc[p] = "print_nl"
  /\ cout' = Upd(cout, p,
                 IF buf[p][Len(buf[p])] # NL
                 THEN cout[p] \o Piece("recv", <<NL>>)
                 ELSE cout[p])
  /\ recvPc' = Upd(recvPc, p, "check")
  /\ UNCHANGED <<running, mainPc, sendPc, conn_fd, buf, sendLocals, mainLocals,
                 cerr, inq, fin, wire, typed, late, envCounts, mainCounts, trig,
                 status>>

\* recv returns 0: nothing is pending and the peer has closed, or the socket
\* has been shut down (which also wakes a call that is waiting for data).
RecvZero(p) ==
  /\ recvPc[p] = "recv"
  /\ inq[p] = <<>>
  /\ fin[p] \/ shut[p]
  /\ recvPc' = Upd(recvPc, p, "peer_closed")
  /\ UNCHANGED <<running, mainPc, sendPc, conn_fd, buf, sendLocals, mainLocals,
                 cout, cerr, inq, fin, wire, typed, late, envCounts, mainCounts,
                 trig, status>>

\* RecvPeerClosed with the relay closing the socket itself before it returns.
RecvPeerClosedAndCloses(p) ==
  /\ recvPc[p] = "peer_closed"
  /\ cerr' = Upd(cerr, p, Append(cerr[p], "Connection closed by peer"))
  /\ running' = Upd(running, p, FALSE)
  /\ trig' = Upd(trig, p, trig[p] \cup {"recv_zero"})
  /\ nclose' = Upd(nclose, p, nclose[p] + 1)
  /\ conn_fd' = Upd(conn_fd, p, "closed")
  /\ recvPc' = Upd(recvPc, p, "done")
  /\ UNCHANGED <<mainPc, sendPc, shut, nshutdown, buf, sendLocals, mainLocals,
                 cout, inq, fin, wire, typed, late, envCounts, status>>

\* cerr << "Connection closed by peer" << endl; running.store(false); break;
RecvPeerClosed(p) ==
  /\ recvPc[p] = "peer_closed"
  /\ cerr' = Upd(cerr, p, Append(cerr[p], "Connection closed by peer"))
  /\ running' = Upd(running, p, FALSE)
  /\ trig' = Upd(trig, p, trig[p] \cup {"recv_zero"})
  /\ recvPc' = Upd(recvPc, p, "done")
  /\ UNCHANGED <<mainPc, sendPc, conn_fd, buf, sendLocals, mainLocals, cout,
                 inq, fin, wire, typed, late, envCounts, mainCounts, status>>

\* recv returns -1 with errno == EINTR: continue;
RecvEintr(p) ==
  /\ recvPc[p] = "recv"
  /\ recvPc' = Upd(recvPc, p, "check")
  /\ UNCHANGED <<running, mainPc, sendPc, conn_fd, buf, sendLocals, mainLocals,
                 cout, cerr, inq, fin, wire, typed, late, envCounts, mainCounts,
                 trig, status>>

\* recv returns -1 with a connection error (ECONNRESET, ETIMEDOUT, ...)
RecvFail(p) ==
  /\ recvPc[p] = "recv"
  /\ ~shut[p]
  /\ recvPc' = Upd(recvPc, p, "recv_error")
  /\ UNCHANGED <<running, mainPc, sendPc, conn_fd, buf, sendLocals, mainLocals,
                 cout, cerr, inq, fin, wire, typed, late, envCounts, mainCounts,
                 trig, status>>

\* RecvError with the store left out: the relay returns, the flag stays.
RecvErrorKeepsRunning(p) ==
  /\ recvPc[p] = "recv_error"
  /\ cerr' = Upd(cerr, p, Append(cerr[p], "recv: error"))
  /\ recvPc' = Upd(recvPc, p, "done")
  /\ UNCHANGED <<running, trig, mainPc, sendPc, conn_fd, buf, sendLocals,
                 mainLocals, cout, inq, fin, wire, typed, late, envCounts,
                 mainCounts, status>>

\* perror("recv"); running.store(false); break;
RecvError(p) ==
  /\ recvPc[p] = "recv_error"
  /\ cerr' = Upd(cerr, p, Append(cerr[p], "recv: error"))
  /\ running' = Upd(running, p, FALSE)
  /\ trig' = Upd(trig, p, trig[p] \cup {"recv_error"})
  /\ recvPc' = Upd(recvPc, p, "done")
  /\ UNCHANGED <<mainPc, sendPc, conn_fd, buf, sendLocals, mainLocals, cout,
                 inq, fin, wire, typed, late, envCounts, mainCounts, status>>

\* -------------------------------------------------------------- send_loop
\* while (running.load() && ...): the flag is read before getline is called.
\* When it is false the loop ends: running.store(false); (line 137)
SendCheck(p) ==
  /\ sendPc[p] = "check"
  /\ IF running[p]
     THEN /\ sendPc' = Upd(sendPc, p, "getline")
          /\ UNCHANGED <<running, trig>>
     ELSE /\ sendPc' = Upd(sendPc, p, "done")
          /\ running' = Upd(running, p, FALSE)
          /\ trig' = Upd(trig, p, trig[p] \cup {"send_exit"})
  /\ UNCHANGED <<mainPc, recvPc, conn_fd, buf, sendLocals, mainLocals, cout,
                 cerr, inq, fin, wire, typed, late, envCounts, mainCounts, status>>

\* std::getline(cin, line) returns a line;
\* string out = username + ": " + line + "\n";
SendGetline(p) ==
  /\ sendPc[p] = "getline"
  /\ stdin[p] > 0
  /\ Len(typed[p]) + npeer[p] < MaxInputs
  /\ stdin' = Upd(stdin, p, stdin[p] - 1)
  /\ \E ln \in Lines :
       /\ line' = Upd(line, p, ln)
       /\ typed' = Upd(typed, p, Append(typed[p], ln))
       /\ late' = Upd(late, p, Append(late[p], ~running[p]))
       /\ out' = Upd(out, p, Message(username[p], ln))
  /\ sendPc' = Upd(sendPc, p, "echo_you")
  /\ UNCHANGED <<running, mainPc, recvPc, conn_fd, buf, sent, to_send,
                 mainLocals, cout, cerr, inq, fin, wire, npeer, mainCounts,
                 trig, status>>

\* std::getline(cin, line) reaches end of input: the loop ends;
\* running.store(false); (line 137)
SendEof(p) ==
  /\ sendPc[p] = "getline"
  /\ running' = Upd(running, p, FALSE)
  /\ trig' = Upd(trig, p, trig[p] \cup {"send_eof"})
  /\ sendPc' = Upd(sendPc, p, "done")
  /\ UNCHANGED <<mainPc, recvPc, conn_fd, buf, sendLocals, mainLocals, cout,
                 cerr, inq, fin, wire, typed, late, envCounts, mainCounts, status>>

\* one operator<< of line 119: writes s and moves on to the next one
SendEcho(p, at, s, next) ==
  /\ sendPc[p] = at
  /\ cout' = Upd(cout, p, cout[p] \o Piece("send", s))
  /\ sendPc' = Upd(sendPc, p, next)
  /\ UNCHANGED <<running, mainPc, recvPc, conn_fd, buf, line, out, mainLocals,
                 cerr, inq, fin, wire, typed, late, envCounts, mainCounts, trig,
                 status>>

\* cout << "[you] "
SendEchoYou(p) ==
  SendEcho(p, "echo_you", <<"[you] ">>, "echo_name") /\ UNCHANGED <<sent, to_send>>

\* ... << username
SendEchoName(p) ==
  SendEcho(p, "echo_name", username[p], "echo_sep") /\ UNCHANGED <<sent, to_send>>

\* ... << ": "
SendEchoSep(p) ==
  SendEcho(p, "echo_sep", <<":", " ">>, "echo_line") /\ UNCHANGED <<sent, to_send>>

\* SendEchoLine with the line written twice.
SendEchoLineTwice(p) ==
  /\ SendEcho(p, "echo_line", line[p] \o line[p], "echo_endl")
  /\ UNCHANGED <<sent, to_send>>

\* ... << line
SendEchoLine(p) ==
  SendEcho(p, "echo_line", line[p], "echo_endl") /\ UNCHANGED <<sent, to_send>>

\* ... << endl;  ssize_t sent = 0; size_t to_send = out.size();
SendEchoEndl(p) ==
  /\ SendEcho(p, "echo_endl", <<NL>>, "call_send")
  /\ sent' = Upd(sent, p, 0)
  /\ to_send' = Upd(to_send, p, Len(out[p]))

\* ssize_t n = send(sockfd, data + sent, to_send, 0);  the call is entered
\* on a socket that is open and not shut down: the thread is in the call
\* until the transport takes bytes or the call fails.
SendCall(p) ==
  /\ sendPc[p] = "call_send"
  /\ conn_fd[p] = "open"
  /\ ~shut[p]
  /\ sendPc' = Upd(sendPc, p, "send")
  /\ UNCHANGED <<running, mainPc, recvPc, conn_fd, buf, sendLocals,
                 mainLocals, cout, cerr, inq, fin, wire, typed, late,
                 envCounts, mainCounts, trig, status>>

\* SendAccept with send(sockfd, data, to_send, 0): the offset is forgotten.
SendAcceptFromStart(p) ==
  /\ sendPc[p] = "send"
  /\ conn_fd[p] = "open"
  /\ ~shut[p]
  /\ \E n \in 1..to_send[p] :
       LET bytes == SubSeq(out[p], 1, n) IN
       /\ wire' = Upd(wire, p, wire[p] \o bytes)
       /\ inq' = Upd(inq, Other(p), inq[Other(p)] \o bytes)
       /\ sent' = Upd(sent, p, sent[p] + n)
       /\ to_send' = Upd(to_send, p, to_send[p] - n)
       /\ sendPc' = Upd(sendPc, p, IF to_send[p] - n > 0 THEN "call_send"
                                                         ELSE "check")
  /\ UNCHANGED <<running, mainPc, recvPc, conn_fd, buf, line, out, mainLocals,
                 cout, cerr, fin, typed, late, envCounts, mainCounts, trig, status>>

\* while (to_send > 0) { ssize_t n = send(sockfd, data + sent, to_send, 0);
\*   sent += n; to_send -= n; }   with 1 <= n <= to_send
SendAccept(p) ==
  /\ sendPc[p] = "send"
  /\ conn_fd[p] = "open"
  /\ ~shut[p]
  /\ \E n \in 1..to_send[p] :
       LET bytes == SubSeq(out[p], sent[p] + 1, sent[p] + n) IN
       /\ wire' = Upd(wire, p, wire[p] \o bytes)
       /\ inq' = Upd(inq, Other(p), inq[Other(p)] \o bytes)
       /\ sent' = Upd(sent, p, sent[p] + n)
       /\ to_send' = Upd(to_send, p, to_send[p] - n)
       /\ sendPc' = Upd(sendPc, p, IF to_send[p] - n > 0 THEN "call_send"
                                                         ELSE "check")
  /\ UNCHANGED <<running, mainPc, recvPc, conn_fd, buf, line, out, mainLocals,
                 cout, cerr, fin, typed, late, envCounts, mainCounts, trig, status>>

\* SendEintr with the retry starting over: sent = 0; to_send = out.size();
SendEintrRestarts(p) ==
  /\ sendPc[p] = "send"
  /\ conn_fd[p] = "open"
  /\ ~shut[p]
  /\ sent' = Upd(sent, p, 0)
  /\ to_send' = Upd(to_send, p, Len(out[p]))
  /\ sendPc' = Upd(sendPc, p, "send_intr")
  /\ UNCHANGED <<running, mainPc, recvPc, conn_fd, buf, line, out,
                 mainLocals, cout, cerr, inq, fin, wire, typed, late,
                 envCounts, mainCounts, trig, status>>

\* send returns -1 with errno == EINTR: continue;  Only a call that waits
\* can be interrupted: on a socket shut down or closed send fails at once.
SendEintr(p) ==
  /\ sendPc[p] = "send"
  /\ conn_fd[p] = "open"
  /\ ~shut[p]
  /\ sendPc' = Upd(sendPc, p, "send_intr")
  /\ UNCHANGED <<running, mainPc, recvPc, conn_fd, buf, sendLocals,
                 mainLocals, cout, cerr, inq, fin, wire, typed, late,
                 envCounts, mainCounts, trig, status>>

\* while (to_send > 0) after the continue of line 127: to_send has not
\* changed, so send is called again with data + sent and to_send
SendRetry(p) ==
  /\ sendPc[p] = "send_intr"
  /\ sendPc' = Upd(sendPc, p, IF to_send[p] > 0 THEN "call_send" ELSE "check")
  /\ UNCHANGED <<running, mainPc, recvPc, conn_fd, buf, sendLocals,
                 mainLocals, cout, cerr, inq, fin, wire, typed, late,
                 envCounts, mainCounts, trig, status>>

\* SendError with the store left out: the relay returns, the flag stays.
SendErrorKeepsRunning(p) ==
  /\ cerr' = Upd(cerr, p, Append(cerr[p], "send: error"))
  /\ sendPc' = Upd(sendPc, p, "done")
  /\ UNCHANGED <<running, trig, mainPc, recvPc, conn_fd, buf, sendLocals,
                 mainLocals, cout, inq, fin, wire, typed, late, envCounts,
                 mainCounts, status>>

\* perror("send"); running.store(false); return;
SendError(p) ==
  /\ cerr' = Upd(cerr, p, Append(cerr[p], "send: error"))
  /\ running' = Upd(running, p, FALSE)
  /\ trig' = Upd(trig, p, trig[p] \cup {"send_error"})
  /\ sendPc' = Upd(sendPc, p, "done")
  /\ UNCHANGED <<mainPc, recvPc, conn_fd, buf, sendLocals, mainLocals, cout,
                 inq, fin, wire, typed, late, envCounts, mainCounts, status>>

\* send is called on the descriptor main has closed: -1 with EBADF.
SendBadf(p) ==
  /\ sendPc[p] = "call_send"
  /\ conn_fd[p] = "closed"
  /\ SendError(p)

\* send returns -1 with a connection error (ECONNRESET, ETIMEDOUT, ...)
SendFail(p) ==
  /\ sendPc[p] = "send"
  /\ conn_fd[p] = "open"
  /\ ~shut[p]
  /\ SendError(p)

\* send(..., 0) on a socket main has shut down for writing, whether the
\* call is entered after the shutdown or was waiting when it came: EPIPE,
\* and without MSG_NOSIGNAL the process is sent SIGPIPE, whose default
\* action ends it.
SendSigpipe(p) ==
  /\ \/ sendPc[p] = "call_send" /\ conn_fd[p] = "open"
     \/ sendPc[p] = "send"
  /\ shut[p]
  /\ Kill(p)
  /\ UNCHANGED <<running, conn_fd, buf, sendLocals, mainLocals, cout, cerr, inq,
                 wire, typed, late, envCounts, mainCounts, trig>>

\* send(..., 0) on a connection the peer has reset: EPIPE and SIGPIPE.
SendPeerGone(p) ==
  /\ sendPc[p] = "send"
  /\ conn_fd[p] = "open"
  /\ ~shut[p]
  /\ Kill(p)
  /\ UNCHANGED <<running, conn_fd, buf, sendLocals, mainLocals, cout, cerr, inq,
                 wire, typed, late, envCounts, mainCounts, trig>>

\* ------------------------------------------------------------ environment
\* handle_sigint with running.store(!running.load()): the handler toggles.
handle_sigint_toggles(p) ==
  /\ mainPc[p] \notin {"off", "done", "killed"}
  /\ running' = Upd(running, p, ~running[p])
  /\ trig' = Upd(trig, p, trig[p] \cup {"sigint"})
  /\ UNCHANGED <<mainPc, recvPc, sendPc, conn_fd, buf, sendLocals, mainLocals,
                 cout, cerr, inq, fin, wire, typed, late, envCounts, mainCounts,
                 status>>

\* void handle_sigint(int) { running.store(false); }
\* installed by signal(SIGINT, handle_sigint) before the connection is made
handle_sigint(p) ==
  /\ mainPc[p] \notin {"off", "start", "failed", "done", "killed"}
  /\ running' = Upd(running, p, FALSE)
  /\ trig' = Upd(trig, p, trig[p] \cup {"sigint"})
  /\ UNCHANGED <<mainPc, recvPc, sendPc, conn_fd, buf, sendLocals, mainLocals,
                 cout, cerr, inq, fin, wire, typed, late, envCounts, mainCounts,
                 status>>

\* a peer that is not modelled as a process sends a byte
PeerSend(p) ==
  /\ mainPc[p] \notin {"off", "done", "killed"}
  /\ mainPc[Other(p)] = "off"
  /\ ~fin[p]
  /\ Len(typed[p]) + npeer[p] < MaxInputs
  /\ npeer' = Upd(npeer, p, npeer[p] + 1)
  /\ \E b \in PeerBytes : inq' = Upd(inq, p, Append(inq[p], b))
  /\ UNCHANGED <<running, mainPc, recvPc, sendPc, conn_fd, buf, sendLocals,
                 mainLocals, cout, cerr, fin, wire, typed, late, stdin, mainCounts,
                 trig, status>>

\* a peer that is not modelled as a process closes the connection
PeerClose(p) ==
  /\ mainPc[p] \notin {"off", "done", "killed"}
  /\ conn_fd[p] # "none"
  /\ mainPc[Other(p)] = "off"
  /\ ~fin[p]
  /\ fin' = Upd(fin, p, TRUE)
  /\ UNCHANGED <<running, mainPc, recvPc, sendPc, conn_fd, buf, sendLocals,
                 mainLocals, cout, cerr, inq, wire, typed, late, envCounts, mainCounts,
                 trig, status>>

\* ---------------------------------------------------------- specifications
\* the steps of recv_loop that need nothing from outside the process
RecvSteps(p) ==
  \/ RecvCheck(p)
  \/ RecvCall(p)
  \/ RecvData(p)
  \/ RecvPrintPrefix(p)
  \/ RecvPrintData(p)
  \/ RecvPrintNl(p)
  \/ RecvZero(p)
  \/ RecvPeerClosed(p)
  \/ RecvError(p)

\* the steps of send_loop that need nothing from outside the process
SendSteps(p) ==
  \/ SendCheck(p)
  \/ SendEchoYou(p)
  \/ SendEchoName(p)
  \/ SendEchoSep(p)
  \/ SendEchoLine(p)
  \/ SendEchoEndl(p)
  \/ SendCall(p)
  \/ SendBadf(p)
  \/ SendSigpipe(p)

\* the console: a line, or the end of input
Console(p) ==
  \/ SendGetline(p)
  \/ SendEof(p)

\* the connection carrying the bytes of a write
Transport(p) ==
  \/ SendAccept(p)

\* signals and failures of the connection
Faults(p) ==
  \/ handle_sigint(p)
  \/ RecvEintr(p)
  \/ SendEintr(p)
  \/ RecvFail(p)
  \/ SendFail(p)
  \/ SendPeerGone(p)

\* the peer of a single process
Peer(p) ==
  \/ PeerSend(p)
  \/ PeerClose(p)

Next ==
  \E p \in Proc :
    \/ Main(p)
    \/ RecvSteps(p)
    \/ SendSteps(p)
    \/ Console(p)
    \/ Transport(p)
    \/ Faults(p)
    \/ SendRetry(p)
    \/ Peer(p)

Spec == Init /\ [][Next]_vars

\* two connected processes; the connection fails only by being closed
NextAB ==
  \E p \in Proc :
    \/ Main(p)
    \/ RecvSteps(p)
    \/ SendSteps(p)
    \/ Console(p)
    \/ Transport(p)

SpecAB == InitAB /\ [][NextAB]_vars

\* a session in which the console is at end of input and the peer sends
\* nothing: it ends by end of input, by Ctrl+C or by the peer closing
QuietSession(p) ==
  \/ RecvCheck(p)
  \/ RecvCall(p)
  \/ RecvZero(p)
  \/ RecvPeerClosed(p)
  \/ RecvError(p)
  \/ SendCheck(p)
  \/ SendEof(p)
  \/ handle_sigint(p)
  \/ PeerClose(p)

\* main from its first line: establishment, then a quiet session
NextEst ==
  \E p \in Proc :
    \/ Establish(p)
    \/ Main(p)
    \/ QuietSession(p)

SpecEst == InitEst /\ [][NextEst]_vars

\* Every thread that can take a step on its own eventually takes one.  No
\* fairness is assumed of the console, the peer, the signals or the
\* transport: a blocking call may wait for them for ever.
Fairness ==
  \A p \in Proc :
    /\ WF_vars(Main(p))
    /\ WF_vars(RecvSteps(p))
    /\ WF_vars(SendSteps(p) \/ SendRetry(p))

FairSpec == Spec /\ Fairness

FairSpecAB == SpecAB /\ Fairness

\* ------------------------------------------------------------- vocabulary
\* both relays have returned
Returned(p) == recvPc[p] = "done" /\ sendPc[p] = "done"

\* the state Stopped of the session: both relays have returned, the
\* supervisor is past its joins and the Endpoint is closed
Stopped(p) ==
  /\ mainPc[p] \in {"exiting", "done"}
  /\ Returned(p)
  /\ conn_fd[p] = "closed"

\* the process has printed its exit notice and returned 0 from main
Exited(p) ==
  /\ mainPc[p] = "done"
  /\ status[p] = "0"
  /\ \E i \in 1..Len(cout[p]) : cout[p][i] = <<"main", "Exiting.">>

\* the process was ended by a signal
Killed(p) == mainPc[p] = "killed"

\* the messages of the lines ls, as send_loop builds them
RECURSIVE Messages(_, _)
Messages(name, ls) ==
  IF ls = <<>> THEN <<>>
  ELSE Message(name, Head(ls)) \o Messages(name, Tail(ls))

\* what recv_loop prints for the messages of the lines ls, one per line
RECURSIVE RemoteLines(_, _)
RemoteLines(name, ls) ==
  IF ls = <<>> THEN <<>>
  ELSE <<"[remote] ">> \o Message(name, Head(ls)) \o RemoteLines(name, Tail(ls))

ByRecv(e) == e[1] = "recv"
\* the characters recv_loop has written to the console, in order
RecvText(p) ==
  LET sel == SelectSeq(cout[p], ByRecv) IN [i \in 1..Len(sel) |-> sel[i][2]]

\* no write of send_loop has failed
NoWriteError(p) == "send_error" \notin trig[p] /\ sendPc[p] # "killed"

\* all but the last element
Front(q) == SubSeq(q, 1, Len(q) - 1)

\* ----------------------------------------------------------------- claims
\* C1: the Endpoint is closed only after both relays have returned, so no
\* relay is inside or about to start a read or write on it when it is closed.
C1_CloseAfterRelaysReturned ==
  \A p \in Proc : conn_fd[p] = "closed" /\ mainPc[p] # "killed" => Returned(p)

\* C2: once the inbound relay has observed a zero-length read the session
\* reaches Stopped, whatever the console does (the outbound relay may be
\* waiting for a line that never comes).  A process ended by SIGPIPE is
\* not held against the claim.
C2_ZeroReadStops ==
  (recvPc["A"] = "peer_closed") ~> (Stopped("A") \/ Killed("A"))

\* C3: once the outbound relay has read end-of-input, every poll of the
\* supervisor finds the flag set, the session reaches Stopped, and the
\* Endpoint is shut down and closed exactly once.
C3_EofStops ==
  /\ []("send_eof" \in trig["A"] =>
          /\ mainPc["A"] = "poll" => ~running["A"]
          /\ nclose["A"] <= 1
          /\ Stopped("A") => nclose["A"] = 1 /\ nshutdown["A"] = 1)
  /\ ("send_eof" \in trig["A"]) ~> Stopped("A")

\* C3 witness: end-of-input stopped a session whose inbound relay was
\* waiting in recv with the peer still connected.
C3_Witness ==
  /\ Stopped("A")
  /\ trig["A"] = {"send_eof", "recv_zero"}
  /\ ~fin["A"]

\* C4: after an interrupt signal the session reaches Stopped and the process
\* exits, whatever the relays are blocked in.  A process ended by SIGPIPE is
\* not held against the claim.
C4_SigintStops ==
  ("sigint" \in trig["A"]) ~> ((Stopped("A") /\ mainPc["A"] = "done") \/ Killed("A"))

\* C5: when B reaches end-of-input, A and B both print their exit notice and
\* end with status 0, without console input on A.  A process ended by
\* SIGPIPE is not held against the claim.
C5_BothExit ==
  ("send_eof" \in trig["B"]) ~> ((Exited("A") \/ Killed("A")) /\ Exited("B"))

C7_FlagMonotonic ==
  /\ \A p \in Proc : running[p]
  /\ [][\A p \in Proc : ~running[p] => ~running'[p]]_vars

\* C7 witness: the flag is still false at the end of a session in which it
\* was stored more than once.
C7_Witness ==
  /\ mainPc["A"] = "done"
  /\ ~running["A"]
  /\ Cardinality(trig["A"]) >= 2

\* C8: as long as no write has failed, the bytes written are exactly the
\* messages of the lines read, in order, followed by the part of the current
\* message already sent; the current message is complete on the wire before
\* getline is called again.
C8_PartialWrites ==
  \A p \in Proc :
    NoWriteError(p) /\ sendPc[p] # "idle" =>
      IF sendPc[p] \in {"check", "getline", "done"}
      THEN wire[p] = Messages(username[p], typed[p])
      ELSE /\ typed[p] # <<>>
           /\ out[p] = Message(username[p], typed[p][Len(typed[p])])
           /\ IF sendPc[p] \in {"call_send", "send", "send_intr"}
              THEN /\ sent[p] + to_send[p] = Len(out[p])
                   /\ to_send[p] > 0
                   /\ wire[p] = Messages(username[p], Front(typed[p]))
                                  \o SubSeq(out[p], 1, sent[p])
              ELSE wire[p] = Messages(username[p], Front(typed[p]))

\* C8 witness: a message of which the transport has so far accepted a part.
C8_Witness ==
  /\ sendPc["A"] = "send"
  /\ sent["A"] > 0
  /\ to_send["A"] > 0
  /\ NoWriteError("A")

\* C9: once B has read and printed everything A has sent, what B's inbound
\* relay has printed is "[remote] <nameA>: <text>", once, for each line A
\* sent, however the bytes were delivered to B's reads.
C9_RemoteLineOnce ==
  /\ \A i \in 1..Len(typed["A"]) : typed["A"][i] # <<>>
  /\ sendPc["A"] \in {"check", "getline", "done"}
  /\ wire["A"] = Messages(username["A"], typed["A"])
  /\ inq["B"] = <<>>
  /\ recvPc["B"] \in {"check", "call_recv", "recv"}
  => RecvText("B") = RemoteLines(username["A"], typed["A"])

\* C10: on the console no line mixes characters printed by different
\* threads.
C10_LinesAtomic ==
  \A p \in Proc :
    \A i \in 1..(Len(cout[p]) - 1) :
      cout[p][i][2] # NL => cout[p][i][1] = cout[p][i + 1][1]

\* establishment has failed: main has returned 1
EstablishmentFailed(p) == mainPc[p] = "failed"

\* the session was shut down by a trigger (the flag was stored and main
\* issued the half-close) and the process has ended
SessionEnded(p) ==
  /\ trig[p] # {}
  /\ shut[p]
  /\ mainPc[p] \in {"done", "killed"}

\* C11: the exit status is 1 exactly when establishment has failed, and then
\* no relay was started and no connection is held; a process whose session
\* was established and then shut down by a trigger has ended with status 0.
C11_ExitStatus ==
  \A p \in Proc :
    /\ status[p] = "1" <=> EstablishmentFailed(p)
    /\ EstablishmentFailed(p) =>
         recvPc[p] = "idle" /\ sendPc[p] = "idle" /\ conn_fd[p] = "none"
    /\ SessionEnded(p) => status[p] = "0"

\* the positions of main from line 192 on: the session
SessionPcs ==
  {"spawn_r", "spawn_s", "poll", "shutdown", "close", "join_s", "join_r",
   "exiting", "done", "killed"}

\* C12: the listener accepts one connection; the listening socket is open
\* only between socket() and the close that follows accept, it is closed
\* on every way out of establishment, and from the moment the relays can
\* start the connected socket is the only socket the process has had open.
C12_ListenerClosed ==
  \A p \in Proc :
    /\ naccept[p] <= 1
    /\ srv[p] = "open" =>
         mainPc[p] \in {"srv_bind", "srv_listen", "accept", "close_srv"}
    /\ srv[p] = "open" /\ conn_fd[p] # "none" => mainPc[p] = "close_srv"
    /\ mainPc[p] = "failed" => srv[p] # "open" /\ conn_fd[p] = "none"
    /\ mainPc[p] \in SessionPcs =>
         /\ srv[p] # "open"
         /\ socks[p] = {}
         /\ srv[p] = "closed" => naccept[p] = 1
    /\ mainPc[p] \notin SessionPcs => recvPc[p] = "idle" /\ sendPc[p] = "idle"

\* C12 witness: a listener in its session, the inbound relay waiting in
\* recv on the accepted connection.
C12_Witness ==
  /\ srv["A"] = "closed"
  /\ naccept["A"] = 1
  /\ recvPc["A"] = "recv"
  /\ conn_fd["A"] = "open"

\* the first candidate whose socket and connect succeed, 0 if there is none
FirstOk(c) ==
  IF \E i \in 1..Len(c) : c[i] = "ok"
  THEN CHOOSE i \in 1..Len(c) :
         c[i] = "ok" /\ \A j \in 1..(i - 1) : c[j] # "ok"
  ELSE 0

\* C13: the dialer tries the candidates in order; when it tries one, every
\* earlier one has failed and its socket is closed; it returns the socket
\* of the first candidate whose connect succeeds, or -1 with no socket open
\* when every candidate fails, and then main returns 1.
C13_FirstCandidate ==
  \A p \in Proc :
    /\ Cardinality(socks[p]) <= 1
    /\ mainPc[p] \in {"cli_socket", "cli_connect"} =>
         /\ rp[p] \in 1..Len(cands[p])
         /\ \A j \in 1..(rp[p] - 1) : cands[p][j] # "ok"
         /\ socks[p] = IF mainPc[p] = "cli_socket" THEN {} ELSE {rp[p]}
         /\ sfd[p] = IF mainPc[p] = "cli_socket" THEN 0 ELSE rp[p]
    /\ mainPc[p] = "cli_return" =>
         /\ sfd[p] = FirstOk(cands[p])
         /\ socks[p] = IF sfd[p] = 0 THEN {} ELSE {sfd[p]}
    /\ cands[p] # <<>> /\ mainPc[p] = "failed" =>
         FirstOk(cands[p]) = 0 /\ socks[p] = {} /\ conn_fd[p] = "none"
    /\ cands[p] # <<>> /\ mainPc[p] \in SessionPcs =>
         sfd[p] = FirstOk(cands[p]) /\ sfd[p] # 0 /\ conn_fd[p] # "none"

\* C13 witness: the first candidate refused, its socket was closed, and the
\* second candidate is the connection returned.
C13_Witness ==
  /\ mainPc["A"] = "cli_return"
  /\ cands["A"] = <<"refused", "ok">>
  /\ sfd["A"] = 2
  /\ socks["A"] = {2}

\* C14: while the flag is unset no relay has returned: every way out of
\* recv_loop and of send_loop stores false (or has read false) first.
C14_RunningInvariant ==
  \A p \in Proc :
    /\ running[p] => recvPc[p] # "done" /\ sendPc[p] # "done"
    /\ running[p] /\ mainPc[p] \in {"poll", "shutdown"} =>
         /\ recvPc[p] \notin {"idle", "done"}
         /\ sendPc[p] \notin {"idle", "done"}

\* C14 witness: the inbound relay has returned by its loop condition alone,
\* the flag having been set by the interrupt handler, while the outbound
\* relay is still active.
C14_Witness ==
  /\ recvPc["A"] = "done"
  /\ trig["A"] = {"sigint"}
  /\ sendPc["A"] = "getline"
  /\ ~running["A"]

\* C15: once main has issued the half-close, a relay that is inside recv
\* returns from recv_loop (unless the process has been ended by SIGPIPE),
\* and a relay that is inside send has its write fail and returns from
\* send_loop.
C15_HalfCloseUnblocks ==
  /\ (shut["A"] /\ recvPc["A"] = "recv") ~> (recvPc["A"] = "done" \/ Killed("A"))
  /\ (shut["A"] /\ sendPc["A"] = "send") ~> (sendPc["A"] = "done")

IsYou(e) == e = <<"send", "[you] ">>
\* the number of lines send_loop has begun to echo
Echoed(p) == Len(SelectSeq(cout[p], IsYou))

\* C16: a line that getline returned when the flag was already set is not
\* echoed, and none of its bytes is written to the socket.
C16_NoLineAfterFlag ==
  \A p \in Proc :
    \A i \in 1..Len(typed[p]) :
      late[p][i] =>
        /\ Echoed(p) < i
        /\ Len(wire[p]) <= Len(Messages(username[p], SubSeq(typed[p], 1, i - 1)))

\* the sequence t ends with the sequence e
EndsWith(t, e) ==
  /\ Len(t) >= Len(e)
  /\ SubSeq(t, Len(t) - Len(e) + 1, Len(t)) = e

\* C17: when recv_loop has handled a read of n > 0 bytes, the last thing it
\* has printed is "[remote] ", those n bytes, and a newline if the last of
\* them is not one; and handling the read has not stored into the flag.
C17_PrintsChunk ==
  \A p \in Proc :
    /\ recvPc[p] \in {"check", "call_recv", "recv"} /\ buf[p] # <<>> =>
         LET b == buf[p]
             nl == IF b[Len(b)] # NL THEN <<NL>> ELSE <<>>
         IN EndsWith(RecvText(p), <<"[remote] ">> \o b \o nl)
    /\ recvPc[p] \in {"print_prefix", "print_data", "print_nl"} =>
         trig[p] \cap {"recv_zero", "recv_error"} = {}

\* a send of send_loop has failed with an error other than EINTR: perror
\* has reported it
WriteFailed(p) == \E i \in 1..Len(cerr[p]) : cerr[p][i] = "send: error"

C19_EintrRetried ==
  /\ [][\A p \in Proc :
          /\ recvPc[p] = "recv" /\ recvPc'[p] = "check" =>
               /\ running' = running /\ trig' = trig /\ cerr' = cerr
               /\ inq' = inq /\ buf' = buf /\ cout' = cout
          /\ sendPc[p] = "send" /\ sendPc'[p] = "send_intr" =>
               /\ running' = running /\ trig' = trig /\ cerr' = cerr
               /\ wire' = wire /\ sendLocals' = sendLocals
          /\ sendPc[p] = "send_intr" /\ sendPc'[p] # "send_intr" =>
               /\ sendPc'[p] \in {"call_send", "killed"}
               /\ sendLocals' = sendLocals /\ wire' = wire
       ]_vars
  /\ [](\A p \in Proc :
          sendPc[p] = "send_intr" =>
            /\ running[p] \/ trig[p] \cap {"send_eof", "send_error", "send_exit"} = {}
            /\ to_send[p] > 0
            /\ sent[p] + to_send[p] = Len(out[p])
            /\ wire[p] = Messages(username[p], Front(typed[p]))
                           \o SubSeq(out[p], 1, sent[p]))

\* C19 witness: a send interrupted in the middle of a message, about to be
\* retried.
C19_Witness ==
  /\ sendPc["A"] = "send_intr"
  /\ sent["A"] > 0
  /\ running["A"]

BySend(e) == e[1] = "send"
\* the characters send_loop has written to the console, in order
SendText(p) ==
  LET sel == SelectSeq(cout[p], BySend) IN [i \in 1..Len(sel) |-> sel[i][2]]

\* the echoes of the lines ls, as line 119 prints them
RECURSIVE YouLines(_, _)
YouLines(name, ls) ==
  IF ls = <<>> THEN <<>>
  ELSE <<"[you] ">> \o name \o <<":", " ">> \o Head(ls) \o <<NL>>
         \o YouLines(name, Tail(ls))

\* a is a prefix of b
IsPrefix(a, b) == Len(a) <= Len(b) /\ SubSeq(b, 1, Len(a)) = a

\* C20: the bytes written to the socket are a prefix of the messages of the
\* lines read, in the order read; what send_loop has echoed is a prefix of
\* the echoes of those lines, every earlier line echoed in full; and a byte
\* of the last line read is written only after its echo is complete.
C20_OrderPreserved ==
  \A p \in Proc :
    /\ IsPrefix(wire[p], Messages(username[p], typed[p]))
    /\ IsPrefix(SendText(p), YouLines(username[p], typed[p]))
    /\ IsPrefix(YouLines(username[p], Front(typed[p])), SendText(p))
    /\ Len(wire[p]) > Len(Messages(username[p], Front(typed[p]))) =>
         SendText(p) = YouLines(username[p], typed[p])

\* C20 witness: two different lines have been read, echoed and written in
\* full.
C20_Witness ==
  /\ typed["A"] = << <<"x">>, <<>> >>
  /\ wire["A"] = Messages(username["A"], typed["A"])
  /\ SendText("A") = YouLines(username["A"], typed["A"])

====
